---- MODULE Spec2Model ----
(***************************************************************************)
(* A model of gilligan's reactive core (src/src/reactivity.ts) and of the  *)
(* class-based controller built on it (the Controller class, kept in       *)
(* src/src/fetch.ts).                                                      *)
(*                                                                         *)
(* JavaScript runs one call stack.  The model keeps that call stack in     *)
(* `frames`: a frame is either one invocation of a wrappedEffect ("run")   *)
(* or one notification loop of the proxy's set trap ("pass").  Step        *)
(* executes one instruction of the innermost frame; the host's operations  *)
(* (creating an effect, writing or reading the store, calling a disposer)  *)
(* start only when the call stack is empty.                                *)
(***************************************************************************)
EXTENDS Integers, Sequences, FiniteSets, TLC

\* Bounds of the model.
MaxEffects == 3
MaxVal == 1
MaxCtrlEffects == 4
MaxRecords == 2

Keys == {"a", "b", "c"}
Values == 0..MaxVal

\* ------------------------------------------------------------------------
\* The document the controller is mounted on.  "root" is the controller's
\* element, "inner" the element of a nested controller, "box" a plain
\* container, "x" a text input bound two-way, "y" a bound text node with
\* an event declaration.  A node's attributes never change.
\* ------------------------------------------------------------------------
Nodes == {"root", "box", "inner", "x", "y"}

\* Siblings are kept in this order.
NodeOrder == << "root", "box", "inner", "x", "y" >>

Containers == {"root", "box", "inner"}

\* Where the page puts a node: box into root, the nested controller into
\* box, the control anywhere.  "y" is part of root's markup and stays
\* where it is.
Places(n) ==
  CASE n = "box"   -> {"root"}
    [] n = "inner" -> {"box"}
    [] n = "x"     -> {"root", "box", "inner"}
    [] OTHER       -> {}

Movable == {"box", "inner", "x"}

\* data-gx
gx(n) == n \in {"root", "inner"}

\* data-gx-bind, "type:key"
NoBind == [ type |-> "", key |-> "" ]

gxBind(n) ==
  CASE n = "x"     -> [ type |-> "value", key |-> "a" ]
    [] n = "y"     -> [ type |-> "text", key |-> "c" ]
    [] n = "inner" -> [ type |-> "text", key |-> "a" ]
    [] OTHER       -> NoBind

\* data-gx-on, "click:bump"
gxOn(n) == n \in {"x", "y"}

\* data-gx-ref
gxRef(n) == IF n = "x" THEN "field" ELSE ""

RefNames == {"field"}

\* el instanceof HTMLInputElement (of type text)
isInput(n) == n = "x"

\* JavaScript values: numbers and the strings that spell them.
Num(n) == << "num", n >>

Str(n) == << "str", n >>

Undefined == << "undefined", 0 >>

\* ''
Empty == << "str", -1 >>

\* String(value ?? '')
String(v) == IF v = Undefined THEN Empty ELSE << "str", v[2] >>

\* The derivation of the computed key c, this.a === 0 || this.b === 0 ?
\* 1 : 0, from the operand of || evaluated last.
Derive(v) == IF v = Num(0) THEN Num(1) ELSE Num(0)

\* ------------------------------------------------------------------------
\* Effect bodies.  The library takes any zero-argument function; these are
\* the bodies the model runs.  An instruction is [op, k, x].
\* ------------------------------------------------------------------------
I(op, k, x) == [op |-> op, k |-> k, x |-> x]

Programs ==
  { "readA", "readB", "cond", "thrower", "copier", "normalize",
    "disposeNext", "disposeSelf", "guarded", "spawner" }

Prog(p) ==
  CASE p = "readA"       -> << I("read", "a", 0) >>
    [] p = "readB"       -> << I("read", "b", 0) >>
       \* if (s.a === 1) s.b
    [] p = "cond"        -> << I("read", "a", 0), I("readIf", "b", 1) >>
    [] p = "thrower"     -> << I("read", "b", 0), I("throw", "", 0) >>
       \* s.b = s.a; s.c
    [] p = "copier"      -> << I("read", "a", 0), I("copy", "b", 0),
                               I("read", "c", 0) >>
       \* if (s.a === 1) s.b; s.a = 0
    [] p = "normalize"   -> << I("read", "a", 0), I("readIf", "b", 1),
                               I("write", "a", 0) >>
       \* s.a; stopNext && stopNext()
    [] p = "disposeNext" -> << I("read", "a", 0), I("dispose", "", 1) >>
       \* s.a; stop && stop(); s.b
    [] p = "disposeSelf" -> << I("read", "a", 0), I("dispose", "", 0),
                               I("read", "b", 0) >>
       \* try { s.b = s.a } catch {}; s.c
    [] p = "guarded"     -> << I("read", "a", 0), I("tryCopy", "b", 0),
                               I("read", "c", 0) >>
       \* s.a; effect(() => s.b); s.c
    [] p = "spawner"     -> << I("read", "a", 0), I("spawn", "", 0),
                               I("read", "c", 0) >>
       \* _initComputed: this._computedCache.c = fn.call(this, this)
       \* with the derivation  this.a === 0 || this.b === 0 ? 1 : 0
    [] p = "computed"    -> << I("read", "a", 0), I("orRead", "b", Num(0)),
                              I("derive", "c", 0) >>
       \* a binding "text:label" on y, for the method
       \* label() { this.a; return this.c }
    [] p = "label"       -> << I("read", "a", 0), I("read", "c", 0),
                               I("dom", "y", 0) >>
       \* _initBindings: _updateDOM(el, bindType, this._resolveValue(objKey))
    [] p \in Nodes       -> << I("read", gxBind(p).key, 0), I("dom", p, 0) >>
    [] OTHER             -> << >>

VARIABLES
  val,          \* the raw target object: key -> value
  subs,         \* subscribers: key -> the Set of effects, in insertion order
  deps,         \* eff.deps, per effect: the subscriber sets it joined (by key)
  effectStack,  \* the module's effectStack
  body,         \* per effect: the fn it wraps (a program name)
  handle,       \* per effect: effect() has returned its disposer
  frames,       \* the JavaScript call stack, innermost frame last
  exc,          \* an exception is propagating up the call stack
  disposed,     \* history: the effects whose disposer has been called
  since,        \* history, per effect: the keys its runs have read since its
                \* subscriptions were last cleared
  lastWrite,    \* history: the store write the last step made, if it made one
  parent,       \* the document: node -> its parent node, "" when it has none
  dom,          \* node -> the text or value it shows
  lifecycle,    \* the controller: "constructed", "mounted" or "unmounted"
  observing,    \* this._observer is set and connected
  records,      \* the observer's queue of mutation records
  transient,    \* removed nodes the observer still watches until delivery
  cleanupMap,   \* this._cleanupMap: node -> its list of cleanups
  inputListeners, \* node -> how many inputHandlers are attached to it
  onListeners,  \* node -> how many data-gx-on handlers are attached to it
  busListeners, \* how many callbacks of this controller the bus holds
  refs,         \* this.refs: ref name -> node, "" when absent
  skipped,      \* history: the elements the scans of the last step left
                \* alone as outside the controller's scope
  attached,     \* index.ts: the registered controller element is in the page
  globalRecords, \* index.ts: the queue of the observer Gilligan.start makes
  instanceMap,  \* index.ts: instanceMap, the element's instance or 0
  instances,    \* index.ts: every instance the registry has constructed
  proxyMap,     \* reactivity.ts: proxyMap, entry i caches proxy i for its key
  child,        \* the property child of the raw object 1: what it holds
  controller,   \* fetch.ts: an instance and what its constructor defined
  listeners,    \* index.ts: EventBus.listeners, the Set of the event if any
  emission      \* index.ts: the call of emit in progress, and its history

\* The reactive core and one controller in its document.
machine ==
  << val, subs, deps, effectStack, body, handle, frames, exc, disposed,
     since, lastWrite, parent, dom, lifecycle, observing, records,
     transient, cleanupMap, inputListeners, onListeners, busListeners,
     refs, skipped >>

\* The registry of index.ts.
registryVars == << attached, globalRecords, instanceMap, instances >>

\* The cache of wrappers of reactive(), on its own.
wrapVars == << proxyMap, child >>

\* The event bus, on its own.
busVars == << listeners, emission >>

\* What the reactive core and the controller's own code never touch.
outside == << registryVars, wrapVars, controller, busVars >>

vars == << machine, outside >>

\* ------------------------------------------------------------------------
\* Helpers on ordered sets (a JavaScript Set iterates in insertion order).
\* ------------------------------------------------------------------------
Range(s) == { s[i] : i \in 1..Len(s) }

Has(s, x) == \E i \in 1..Len(s) : s[i] = x

SetAdd(s, x) == IF Has(s, x) THEN s ELSE Append(s, x)

SetDelete(s, x) == SelectSeq(s, LAMBDA y : y # x)

Top(s) == s[Len(s)]

Pop(s) == SubSeq(s, 1, Len(s) - 1)

\* No store write was made by the last step.
NoWrite == [ k |-> "", old |-> 0, new |-> 0 ]

\* The whole machine state as one record, so that the code's functions are
\* operators from state to state.
M ==
  [ val |-> val, subs |-> subs, deps |-> deps, effectStack |-> effectStack,
    body |-> body, handle |-> handle, frames |-> frames, exc |-> exc,
    disposed |-> disposed, since |-> since, lastWrite |-> NoWrite,
    parent |-> parent, dom |-> dom, lifecycle |-> lifecycle,
    observing |-> observing, records |-> records, transient |-> transient,
    cleanupMap |-> cleanupMap, inputListeners |-> inputListeners,
    onListeners |-> onListeners, busListeners |-> busListeners,
    refs |-> refs, skipped |-> {} ]

SetM(m) ==
  /\ val' = m.val
  /\ subs' = m.subs
  /\ deps' = m.deps
  /\ effectStack' = m.effectStack
  /\ body' = m.body
  /\ handle' = m.handle
  /\ frames' = m.frames
  /\ exc' = m.exc
  /\ disposed' = m.disposed
  /\ since' = m.since
  /\ lastWrite' = m.lastWrite
  /\ parent' = m.parent
  /\ dom' = m.dom
  /\ lifecycle' = m.lifecycle
  /\ observing' = m.observing
  /\ records' = m.records
  /\ transient' = m.transient
  /\ cleanupMap' = m.cleanupMap
  /\ inputListeners' = m.inputListeners
  /\ onListeners' = m.onListeners
  /\ busListeners' = m.busListeners
  /\ refs' = m.refs
  /\ skipped' = m.skipped
  /\ UNCHANGED outside

\* The same, of the initial state.
StartsAs(m) ==
  /\ val = m.val
  /\ subs = m.subs
  /\ deps = m.deps
  /\ effectStack = m.effectStack
  /\ body = m.body
  /\ handle = m.handle
  /\ frames = m.frames
  /\ exc = m.exc
  /\ disposed = m.disposed
  /\ since = m.since
  /\ lastWrite = m.lastWrite
  /\ parent = m.parent
  /\ dom = m.dom
  /\ lifecycle = m.lifecycle
  /\ observing = m.observing
  /\ records = m.records
  /\ transient = m.transient
  /\ cleanupMap = m.cleanupMap
  /\ inputListeners = m.inputListeners
  /\ onListeners = m.onListeners
  /\ busListeners = m.busListeners
  /\ refs = m.refs
  /\ skipped = m.skipped

\* Nothing created yet: an empty store, no effect, a document of detached
\* nodes and no controller.
Blank(v0) ==
  [ val |-> [ k \in Keys |-> v0 ], subs |-> [ k \in Keys |-> << >> ],
    deps |-> << >>, effectStack |-> << >>, body |-> << >>,
    handle |-> << >>, frames |-> << >>, exc |-> FALSE, disposed |-> {},
    since |-> << >>, lastWrite |-> NoWrite,
    parent |-> [ n \in Nodes |-> "" ], dom |-> [ n \in Nodes |-> Empty ],
    lifecycle |-> "none", observing |-> FALSE, records |-> << >>,
    transient |-> {}, cleanupMap |-> [ n \in Nodes |-> << >> ],
    inputListeners |-> [ n \in Nodes |-> 0 ],
    onListeners |-> [ n \in Nodes |-> 0 ], busListeners |-> 0,
    refs |-> [ r \in RefNames |-> "" ], skipped |-> {} ]

\* reads, log and entry are history: the keys this run has read, the effects
\* this pass has called, and effectStack as it was when this run was called.
RunFrame(e, init, entry) ==
  [ kind |-> "run", eff |-> e, pc |-> 1, acc |-> 0, try |-> FALSE,
    init |-> init, key |-> "", snap |-> << >>, idx |-> 0,
    reads |-> {}, log |-> << >>, entry |-> entry ]

PassFrame(k, snap) ==
  [ kind |-> "pass", eff |-> 0, pc |-> 0, acc |-> 0, try |-> FALSE,
    init |-> FALSE, key |-> k, snap |-> snap, idx |-> 1,
    reads |-> {}, log |-> << >>, entry |-> << >> ]

\* ------------------------------------------------------------------------
\* reactivity.ts
\* ------------------------------------------------------------------------

\* A cleanupEffect that empties eff.deps and leaves the subscriber sets as
\* they are.
cleanupEffectKeepingSubscriptions(m, e) == [ m EXCEPT !.deps[e] = << >> ]

\* cleanupEffect: delete eff from every set in eff.deps, then empty eff.deps.
cleanupEffect(m, e) ==
  [ m EXCEPT
      !.subs = [ k \in Keys |->
                   IF k \in Range(m.deps[e]) THEN SetDelete(m.subs[k], e)
                   ELSE m.subs[k] ],
      !.deps[e] = << >> ]

\* A get trap that registers the outermost running effect instead of the
\* innermost one.
trackOutermost(m, k) ==
  IF m.effectStack = << >> THEN m
  ELSE LET activeEffect == m.effectStack[1] IN
       [ m EXCEPT !.subs[k] = SetAdd(@, activeEffect),
                  !.deps[activeEffect] = Append(@, k) ]

\* The get trap's tracking: the effect on top of effectStack, if any, joins
\* the key's subscriber set and remembers the set.
track(m, k) ==
  IF m.effectStack = << >> THEN m
  ELSE LET activeEffect == Top(m.effectStack) IN
       [ m EXCEPT !.subs[k] = SetAdd(@, activeEffect),
                  !.deps[activeEffect] = Append(@, k) ]

\* The snapshot the set trap iterates: new Set(subscribers.get(key)).
effectsToRun(m, k) == m.subs[k]

\* A set trap that notifies without comparing the old and the new value.
reactiveSetUnconditionally(m, k, v) ==
  LET oldValue == m.val[k]
      stored == [ m EXCEPT !.val[k] = v ]
      noted == [ stored EXCEPT
                   !.lastWrite = [ k |-> k, old |-> oldValue, new |-> v ] ]
  IN [ noted EXCEPT
         !.frames = Append(@, PassFrame(k, effectsToRun(noted, k))) ]

\* The set trap: store the value; when it differs from the old one, start
\* iterating a snapshot of the key's subscribers.
reactiveSet(m, k, v) ==
  LET oldValue == m.val[k]
      stored == [ m EXCEPT !.val[k] = v ]
      noted == [ stored EXCEPT
                   !.lastWrite = [ k |-> k, old |-> oldValue, new |-> v ] ]
  IN IF oldValue # v
     THEN [ noted EXCEPT
              !.frames = Append(@, PassFrame(k, effectsToRun(noted, k))) ]
     ELSE noted

\* A wrappedEffect that starts without cleanupEffect.
wrappedEffectWithoutCleanup(m, e, init) ==
  [ m EXCEPT !.effectStack = Append(@, e),
             !.frames = Append(@, RunFrame(e, init, m.effectStack)),
             !.since[e] = {} ]

\* The start of wrappedEffect: cleanupEffect, then effectStack.push.
wrappedEffect(m, e, init) ==
  LET c == cleanupEffect(m, e) IN
  [ c EXCEPT !.effectStack = Append(@, e),
             !.frames = Append(@, RunFrame(e, init, m.effectStack)),
             !.since[e] = {} ]

\* wrappedEffect's finally block.
finallyPop(m) == [ m EXCEPT !.effectStack = Pop(@) ]

\* effect(fn): a new wrappedEffect with empty deps, run at once.
effect(m, p) ==
  LET e == Len(m.body) + 1
      made == [ m EXCEPT !.body = Append(@, p),
                         !.deps = Append(@, << >>),
                         !.handle = Append(@, FALSE),
                         !.since = Append(@, {}) ]
  IN wrappedEffect(made, e, TRUE)

\* The disposer effect() returns: () => cleanupEffect(wrappedEffect).
stopEffect(m, e) ==
  [ cleanupEffect(m, e) EXCEPT !.disposed = @ \cup {e}, !.since[e] = {} ]

\* An _updateDOM whose test for a differing value is inverted: the control
\* is written only when it already shows the value.
_updateDOMWhenEqual(shown, type, value) ==
  IF type = "value"
  THEN IF shown = String(value) THEN String(value) ELSE shown
  ELSE String(value)

\* _updateDOM for the kinds "text" and "value" (of a text control): what
\* the node shows afterwards.  A value is written only when it differs.
_updateDOM(shown, type, value) ==
  IF type = "value"
  THEN IF shown # String(value) THEN String(value) ELSE shown
  ELSE String(value)

\* ------------------------------------------------------------------------
\* The interpreter: one step of the innermost frame.
\* ------------------------------------------------------------------------
SetTop(m, f) == [ m EXCEPT !.frames[Len(m.frames)] = f ]

\* History: the running effect e has read key k.
Noted(m, e, k) == [ m EXCEPT !.since[e] = @ \cup {k} ]

\* One instruction of a running effect body.
Exec(m) ==
  LET f == Top(m.frames)
      ins == Prog(m.body[f.eff])[f.pc]
      next == [ f EXCEPT !.pc = @ + 1 ]
  IN CASE ins.op = "read" ->
            SetTop(Noted(track(m, ins.k), f.eff, ins.k),
                   [ next EXCEPT !.acc = m.val[ins.k],
                                 !.reads = @ \cup {ins.k} ])
       [] ins.op = "readIf" ->
            IF f.acc = ins.x
            THEN SetTop(Noted(track(m, ins.k), f.eff, ins.k),
                        [ next EXCEPT !.reads = @ \cup {ins.k} ])
            ELSE SetTop(m, next)
       [] ins.op = "write" -> reactiveSet(SetTop(m, next), ins.k, ins.x)
       [] ins.op = "copy" -> reactiveSet(SetTop(m, next), ins.k, f.acc)
       [] ins.op = "tryCopy" ->
            reactiveSet(SetTop(m, [ next EXCEPT !.try = TRUE ]), ins.k, f.acc)
       [] ins.op = "throw" -> [ m EXCEPT !.exc = TRUE ]
       [] ins.op = "dispose" ->
            LET target == IF ins.x = 0 THEN f.eff ELSE f.eff + ins.x IN
            IF target <= Len(m.body) /\ m.handle[target]
            THEN stopEffect(SetTop(m, next), target)
            ELSE SetTop(m, next)
       [] ins.op = "spawn" ->
            IF Len(m.body) < MaxEffects
            THEN effect(SetTop(m, next), "readB")
            ELSE SetTop(m, next)
       [] ins.op = "orRead" ->
            \* the right operand of ||, read unless the left one decided
            IF f.acc # ins.x
            THEN SetTop(Noted(track(m, ins.k), f.eff, ins.k),
                        [ next EXCEPT !.acc = m.val[ins.k],
                                      !.reads = @ \cup {ins.k} ])
            ELSE SetTop(m, next)
       [] ins.op = "derive" ->
            reactiveSet(SetTop(m, next), ins.k, Derive(f.acc))
       [] ins.op = "dom" ->
            SetTop([ m EXCEPT !.dom[ins.k] =
                       _updateDOM(@, gxBind(ins.k).type, f.acc) ], next)
       [] OTHER -> SetTop(m, next)

\* The body returned: the finally block pops effectStack; the first run of
\* an effect then returns the disposer to the caller of effect().
Return(m) ==
  LET f == Top(m.frames)
      popped == [ finallyPop(m) EXCEPT !.frames = Pop(@) ]
  IN IF f.init THEN [ popped EXCEPT !.handle[f.eff] = TRUE ] ELSE popped

\* effectsToRun.forEach: call the next effect of the snapshot, or return
\* from the set trap when the snapshot is exhausted.
Notify(m) ==
  LET f == Top(m.frames) IN
  IF f.idx > Len(f.snap)
  THEN LET popped == [ m EXCEPT !.frames = Pop(@) ] IN
       \* back in the caller of the write; a try block around it is left
       IF popped.frames # << >>
       THEN SetTop(popped, [ Top(popped.frames) EXCEPT !.try = FALSE ])
       ELSE popped
  ELSE wrappedEffect(
         SetTop(m, [ f EXCEPT !.idx = @ + 1,
                              !.log = Append(@, f.snap[f.idx]) ]),
         f.snap[f.idx], FALSE)

\* An unwinding in which wrappedEffect has no finally block: the frame is
\* left and effectStack stays as it is.
UnwindWithoutFinally(m) ==
  LET f == Top(m.frames) IN
  IF f.kind = "run" /\ f.try
  THEN SetTop([ m EXCEPT !.exc = FALSE ], [ f EXCEPT !.try = FALSE ])
  ELSE LET popped == [ m EXCEPT !.frames = Pop(@) ]
       IN IF popped.frames = << >> THEN [ popped EXCEPT !.exc = FALSE ]
          ELSE popped

\* An exception leaves the innermost frame.  A run frame's finally block
\* pops effectStack; forEach is abandoned; a body that wrapped its write in
\* try/catch resumes; the host's caller ends the propagation.
Unwind(m) ==
  LET f == Top(m.frames) IN
  IF f.kind = "run" /\ f.try
  THEN SetTop([ m EXCEPT !.exc = FALSE ], [ f EXCEPT !.try = FALSE ])
  ELSE LET left == IF f.kind = "run" THEN finallyPop(m) ELSE m
           popped == [ left EXCEPT !.frames = Pop(@) ]
       IN IF popped.frames = << >> THEN [ popped EXCEPT !.exc = FALSE ]
          ELSE popped

StepFn(m) ==
  LET f == Top(m.frames) IN
  IF m.exc THEN Unwind(m)
  ELSE IF f.kind = "pass" THEN Notify(m)
  ELSE IF f.pc > Len(Prog(m.body[f.eff])) THEN Return(m)
  ELSE Exec(m)

\* ------------------------------------------------------------------------
\* The reactive core on its own.
\* ------------------------------------------------------------------------
Idle == frames = << >>

\* Nothing registered, nothing constructed.
NoRegistry ==
  /\ attached = FALSE
  /\ globalRecords = << >>
  /\ instanceMap = 0
  /\ instances = << >>

\* Nothing wrapped.
NoProxies == proxyMap = << >> /\ child = << "null", 0 >>

\* No instance under construction.
NoController == controller = [ made |-> FALSE ]

\* No emission in progress, or none any more.
NoEmission ==
  [ active |-> FALSE, detached |-> FALSE, pos |-> 0, invoked |-> << >>,
    start |-> {}, dropped |-> {}, threw |-> {}, reported |-> 0,
    raised |-> FALSE ]

\* A bus nobody has subscribed to.
NoBus ==
  /\ listeners = [ has |-> FALSE, entries |-> << >> ]
  /\ emission = NoEmission

\* The parts of the page a specification of one part leaves out.
Apart == NoRegistry /\ NoProxies /\ NoController /\ NoBus

Init == StartsAs(Blank(0)) /\ Apart

\* effect(fn), called by the host.
CreateEffect(p) ==
  /\ Idle
  /\ Len(body) < MaxEffects
  /\ SetM(effect(M, p))

\* store[k] = v, by the host.
Write(k, v) ==
  /\ Idle
  /\ SetM(reactiveSet(M, k, v))

\* store[k], read by the host outside any effect.
Read(k) ==
  /\ Idle
  /\ SetM(track(M, k))

\* The host calls the disposer of effect e.
Dispose(e) ==
  /\ Idle
  /\ e \in 1..Len(body)
  /\ handle[e]
  /\ SetM(stopEffect(M, e))

\* The running code takes its next step.
Step ==
  /\ ~Idle
  /\ SetM(StepFn(M))

Next ==
  \/ \E p \in Programs : CreateEffect(p)
  \/ \E k \in Keys, v \in Values : Write(k, v)
  \/ \E k \in Keys : Read(k)
  \/ \E e \in 1..MaxEffects : Dispose(e)
  \/ Step

Spec == Init /\ [][Next]_vars

\* ------------------------------------------------------------------------
\* The document.
\* ------------------------------------------------------------------------
RECURSIVE InclusiveAncestors(_, _)
InclusiveAncestors(par, n) ==
  IF n = "" THEN {} ELSE {n} \cup InclusiveAncestors(par, par[n])

\* a.contains(n)
contains(par, a, n) == a \in InclusiveAncestors(par, n)

\* el.closest('[data-gx]'): the nearest inclusive ancestor that is a
\* controller's element, "" for null.
RECURSIVE closest(_, _)
closest(par, n) ==
  IF n = "" THEN "" ELSE IF gx(n) THEN n ELSE closest(par, par[n])

ChildrenOf(par, n) == SelectSeq(NodeOrder, LAMBDA c : par[c] = n)

\* n and its descendants in document order.
RECURSIVE Preorder(_, _), PreorderAll(_, _)
Preorder(par, n) == << n >> \o PreorderAll(par, ChildrenOf(par, n))

PreorderAll(par, ns) ==
  IF ns = << >> THEN << >>
  ELSE Preorder(par, Head(ns)) \o PreorderAll(par, Tail(ns))

\* el.querySelectorAll('*')
querySelectorAll(par, n) == Tail(Preorder(par, n))

\* ------------------------------------------------------------------------
\* fetch.ts, class Controller.  The controller modelled has state a and b,
\* the computed key c, the method bump and a connect hook that listens on
\* the bus; its element is the node "root".
\* ------------------------------------------------------------------------
this_el == "root"

\* Code called from the host runs to its end before the host goes on.
RECURSIVE RunToEnd(_)
RunToEnd(m) == IF m.frames = << >> THEN m ELSE RunToEnd(StepFn(m))

\* The cleanups the controller registers.
StopEffect(e) == [ kind |-> "stop", eff |-> e ]

RemoveInputListener == [ kind |-> "input", eff |-> 0 ]

RemoveOnListener == [ kind |-> "on", eff |-> 0 ]

Unsubscribe == [ kind |-> "bus", eff |-> 0 ]

\* fn(), for a cleanup fn registered on node.
callCleanup(m, node, fn) ==
  CASE fn.kind = "stop"  -> stopEffect(m, fn.eff)
    [] fn.kind = "input" ->
         [ m EXCEPT !.inputListeners[node] = IF @ > 0 THEN @ - 1 ELSE 0 ]
    [] fn.kind = "on"    ->
         [ m EXCEPT !.onListeners[node] = IF @ > 0 THEN @ - 1 ELSE 0 ]
    [] OTHER             ->
         [ m EXCEPT !.busListeners = IF @ > 0 THEN @ - 1 ELSE 0 ]

RECURSIVE callCleanups(_, _, _)
callCleanups(m, node, cleanups) ==
  IF cleanups = << >> THEN m
  ELSE callCleanups(callCleanup(m, node, Head(cleanups)), node,
                    Tail(cleanups))

\* _performCleanup's run(node): call the node's cleanups and forget them.
run(m, node) ==
  [ callCleanups(m, node, m.cleanupMap[node]) EXCEPT
      !.cleanupMap[node] = << >> ]

RECURSIVE runEach(_, _)
runEach(m, ns) ==
  IF ns = << >> THEN m ELSE runEach(run(m, Head(ns)), Tail(ns))

\* A _performCleanup that cleans el and leaves its descendants alone.
_performCleanupShallow(m, el) == run(m, el)

\* _performCleanup(el): el, then every descendant it has now.
_performCleanup(m, el) == runEach(m, Preorder(m.parent, el))

_registerCleanup(m, el, fn) == [ m EXCEPT !.cleanupMap[el] = Append(@, fn) ]

\* The scope test of the scans: el belongs to this controller.
inScope(m, el) == el = this_el \/ closest(m.parent, el) = this_el

\* The body of the forEach without the scope test.
bindElementUnscoped(m, el) ==
  IF gxBind(el) = NoBind THEN m
  ELSE LET started == RunToEnd(effect(m, el))
           bound == _registerCleanup(started, el, StopEffect(Len(started.body)))
       IN IF gxBind(el).type = "value" /\ isInput(el)
          THEN _registerCleanup(
                 [ bound EXCEPT !.inputListeners[el] = @ + 1 ],
                 el, RemoveInputListener)
          ELSE bound

\* The body of _initBindings' forEach, for one element.
bindElement(m, el) ==
  IF ~inScope(m, el) THEN [ m EXCEPT !.skipped = @ \cup {el} ]
  ELSE IF gxBind(el) = NoBind THEN m
  ELSE LET started == RunToEnd(effect(m, el))
           bound == _registerCleanup(started, el, StopEffect(Len(started.body)))
       IN IF gxBind(el).type = "value" /\ isInput(el)
          THEN _registerCleanup(
                 [ bound EXCEPT !.inputListeners[el] = @ + 1 ],
                 el, RemoveInputListener)
          ELSE bound

RECURSIVE bindEach(_, _)
bindEach(m, elements) ==
  IF elements = << >> THEN m
  ELSE bindEach(bindElement(m, Head(elements)), Tail(elements))

\* _initBindings(root): root, then its descendants that declare a binding.
_initBindings(m, root) ==
  bindEach(m, << root >> \o
                SelectSeq(querySelectorAll(m.parent, root),
                          LAMBDA n : gxBind(n) # NoBind))

\* The body of _initEvents' forEach, for one element.
listenElement(m, el) ==
  IF ~inScope(m, el) THEN [ m EXCEPT !.skipped = @ \cup {el} ]
  ELSE IF ~gxOn(el) THEN m
  ELSE _registerCleanup([ m EXCEPT !.onListeners[el] = @ + 1 ],
                        el, RemoveOnListener)

RECURSIVE listenEach(_, _)
listenEach(m, elements) ==
  IF elements = << >> THEN m
  ELSE listenEach(listenElement(m, Head(elements)), Tail(elements))

\* _initEvents(root): root, then its descendants that declare an event.
_initEvents(m, root) ==
  listenEach(m, << root >> \o
                  SelectSeq(querySelectorAll(m.parent, root), gxOn))

RECURSIVE mapEach(_, _)
mapEach(m, elements) ==
  IF elements = << >> THEN m
  ELSE LET el == Head(elements)
           mapped == IF inScope(m, el) /\ gxRef(el) # ""
                     THEN [ m EXCEPT !.refs[gxRef(el)] = el ]
                     ELSE m
       IN mapEach(mapped, Tail(elements))

\* _mapRefs(): this.el and its descendants that declare a ref.
_mapRefs(m) ==
  mapEach(m, << this_el >> \o
               SelectSeq(querySelectorAll(m.parent, this_el),
                         LAMBDA n : gxRef(n) # ""))

\* _observeDOM(): a new observer on this.el, childList and subtree.
_observeDOM(m) ==
  [ m EXCEPT !.observing = TRUE, !.records = << >>, !.transient = {} ]

\* listen(event, callback): subscribe on the bus, unsubscribe on cleanup.
listen(m) ==
  _registerCleanup([ m EXCEPT !.busListeners = @ + 1 ], this_el, Unsubscribe)

\* The controller's connect hook: this.listen('set', v => this.b = v).
connect(m) == listen(m)

\* An _initComputed that evaluates the derivation once, outside any
\* effect.
_initComputedOnce(m) == [ m EXCEPT !.val["c"] = Derive(m.val["a"]) ]

\* _initComputed: one effect per computed key, run at once, never stopped.
_initComputed(m) == RunToEnd(effect(m, "computed"))

\* new Controller(el)
constructor ==
  _initComputed([ Blank(Num(0)) EXCEPT !.val["c"] = Undefined,
                                       !.parent["y"] = this_el,
                                       !.lifecycle = "constructed" ])

mount(m) ==
  connect(_observeDOM(
    _initEvents(_initBindings(_mapRefs(m), this_el), this_el)))

unmount(m) ==
  LET stopped == IF m.observing
                 THEN [ m EXCEPT !.observing = FALSE, !.records = << >>,
                                 !.transient = {} ]
                 ELSE m
  IN [ _performCleanup(stopped, this_el) EXCEPT
         !.refs = [ r \in RefNames |-> "" ] ]

\* A callback that handles removals and ignores insertions.
onMutationRemovalsOnly(m, rec) ==
  IF rec.removed THEN _performCleanup(m, rec.node) ELSE m

\* The observer's callback, for one record.
onMutation(m, rec) ==
  IF rec.removed THEN _performCleanup(m, rec.node)
  ELSE IF gx(rec.node) THEN m
  ELSE _mapRefs(_initEvents(_initBindings(m, rec.node), rec.node))

RECURSIVE onMutations(_, _)
onMutations(m, mutations) ==
  IF mutations = << >> THEN m
  ELSE onMutations(onMutation(m, Head(mutations)), Tail(mutations))

\* The write a handler or the host makes through the instance: this[k] = v.
setState(m, k, v) == RunToEnd(reactiveSet(m, k, v))

\* inputHandler: this.a = el.value
inputHandler(m, el) == setState(m, gxBind(el).key, m.dom[el])

\* The method bump: this.b = this.b === 0 ? 1 : 0
bump(m) == setState(m, "b", IF m.val["b"] = Num(0) THEN Num(1) ELSE Num(0))

\* dispatchEvent: call the same handler as often as it is attached.
RECURSIVE dispatch(_, _, _, _)
dispatch(m, el, type, count) ==
  IF count = 0 THEN m
  ELSE dispatch(IF type = "input" THEN inputHandler(m, el) ELSE bump(m),
                el, type, count - 1)

\* internalBus.emit('set', v): every subscribed callback does this.b = v.
RECURSIVE emit(_, _, _)
emit(m, v, count) ==
  IF count = 0 THEN m ELSE emit(setState(m, "b", v), v, count - 1)

\* The observer watches the parent p of a change: p is in this.el's
\* subtree, or in a subtree removed from it since the last delivery.
Watched(m, p) ==
  /\ m.observing
  /\ \/ contains(m.parent, this_el, p)
     \/ \E t \in m.transient : contains(m.parent, t, p)

\* ------------------------------------------------------------------------
\* The controller in its document.
\* ------------------------------------------------------------------------
CtrlInit == StartsAs(constructor) /\ Apart

Mount ==
  /\ lifecycle = "constructed"
  /\ LET m == mount(M) IN
     /\ Len(m.body) <= MaxCtrlEffects
     /\ SetM([ m EXCEPT !.lifecycle = "mounted" ])

Unmount ==
  /\ lifecycle = "mounted"
  /\ SetM([ unmount(M) EXCEPT !.lifecycle = "unmounted" ])

\* p.appendChild(n), by the page.
Insert(n, p) ==
  /\ n \in Movable
  /\ p \in Places(n)
  /\ parent[n] = ""
  /\ IF Watched(M, p)
     THEN /\ Len(records) < MaxRecords
          /\ SetM([ M EXCEPT !.parent[n] = p,
                             !.records = Append(@, [ removed |-> FALSE,
                                                     node |-> n ]) ])
     ELSE SetM([ M EXCEPT !.parent[n] = p ])

\* n.remove(), by the page.
Remove(n) ==
  /\ n \in Movable
  /\ parent[n] # ""
  /\ IF Watched(M, parent[n])
     THEN /\ Len(records) < MaxRecords
          /\ SetM([ M EXCEPT !.parent[n] = "",
                             !.transient = @ \cup {n},
                             !.records = Append(@, [ removed |-> TRUE,
                                                     node |-> n ]) ])
     ELSE SetM([ M EXCEPT !.parent[n] = "" ])

\* The observer's callback runs on the records queued so far.
Deliver ==
  /\ observing
  /\ records # << >>
  /\ LET m == onMutations([ M EXCEPT !.records = << >>, !.transient = {} ],
                          records)
     IN /\ Len(m.body) <= MaxCtrlEffects
        /\ SetM(m)

\* The registry mounts an instance as soon as it has constructed it: until
\* then the page can only have built its document.
InUse == lifecycle # "constructed"

\* The user types v into the control n.
InputEvent(n, v) ==
  /\ InUse
  /\ isInput(n)
  /\ SetM(dispatch([ M EXCEPT !.dom[n] = Str(v) ], n, "input",
                   inputListeners[n]))

\* The user clicks n.
Click(n) ==
  /\ InUse
  /\ gxOn(n)
  /\ SetM(dispatch(M, n, "click", onListeners[n]))

\* instance.k = v, by the page.
WriteState(k, v) ==
  /\ InUse
  /\ SetM(setState(M, k, Num(v)))

\* Gilligan.emit('set', v)
Emit(v) ==
  /\ InUse
  /\ SetM(emit(M, Num(v), busListeners))

CtrlNext ==
  \/ Mount
  \/ Unmount
  \/ \E n \in Nodes, p \in Containers : Insert(n, p)
  \/ \E n \in Nodes : Remove(n)
  \/ Deliver
  \/ \E n \in Nodes, v \in Values : InputEvent(n, v)
  \/ \E n \in Nodes : Click(n)
  \/ \E k \in {"a", "b"}, v \in Values : WriteState(k, v)
  \/ \E v \in Values : Emit(v)

CtrlSpec == CtrlInit /\ [][CtrlNext]_vars

\* ------------------------------------------------------------------------
\* Vocabulary of the properties.
\* ------------------------------------------------------------------------
Effects == 1..Len(body)

\* The keys whose subscriber set holds effect e.
SubscribedKeys(e) == { k \in Keys : Has(subs[k], e) }

Running == frames # << >> /\ Top(frames).kind = "run" /\ ~exc

Notifying == frames # << >> /\ Top(frames).kind = "pass" /\ ~exc

\* This step calls effect e (a first run or a re-run).
Called(e) ==
  /\ Len(frames') = Len(frames) + 1
  /\ Top(frames').kind = "run"
  /\ Top(frames').eff = e

\* This step leaves the notification loop of a write, by its end or by an
\* exception: control is back in the code that made the write.
PassLeft ==
  /\ frames # << >>
  /\ Top(frames).kind = "pass"
  /\ Len(frames') < Len(frames)

\* This step is the normal return of a run of an effect.
RunReturned ==
  /\ Running
  /\ Top(frames).pc > Len(Prog(body[Top(frames).eff]))

\* This step leaves a run of an effect by an exception its body raised or
\* let through.
RunRaised ==
  /\ exc
  /\ frames # << >>
  /\ Top(frames).kind = "run"
  /\ ~Top(frames).try

\* The key the innermost running body reads in this step, as a set.
ReadNow ==
  IF Running /\ Top(frames).pc <= Len(Prog(body[Top(frames).eff]))
  THEN LET f == Top(frames)
           ins == Prog(body[f.eff])[f.pc]
       IN IF ins.op = "read" \/ (ins.op = "readIf" /\ f.acc = ins.x)
          THEN {ins.k} ELSE {}
  ELSE {}

\* The keys a body can read.
StaticReads(p) ==
  { Prog(p)[i].k : i \in { j \in 1..Len(Prog(p)) :
                             Prog(p)[j].op \in {"read", "readIf"} } }

C2_DisposedNeverRunsAgain ==
  [][ \A e \in disposed :
        /\ ~Called(e)
        /\ \A k \in Keys : ~Has(subs'[k], e) ]_vars

\* ------------------------------------------------------------------------
\* C4.  Every effect subscribed to the key when a value-changing write is
\* made is called exactly once for that write, in subscription order: when
\* control leaves the write's notification loop, the effects the loop has
\* called are exactly the subscribers at the time of the write, in order.
\* ------------------------------------------------------------------------
C4_EachSubscriberOncePerWrite ==
  [][ PassLeft => Top(frames).log = Top(frames).snap ]_vars

C6_PathSensitive ==
  [][ /\ \A e \in Effects :
           (Notifying /\ Called(e))
             => Top(frames).key \in StaticReads(body[e])
      /\ PassLeft =>
           \A e \in Range(Top(frames).snap) :
             Top(frames).key \in StaticReads(body[e])
               => Has(Top(frames).log, e) ]_vars

\* ------------------------------------------------------------------------
\* C7.  A read registers the effect on top of the effect stack, which is
\* the innermost running effect, and nobody else: every subscription a step
\* adds is the innermost running body's, for the key it reads in that step,
\* and a read outside any effect adds none.
\* ------------------------------------------------------------------------
C7_ReadsRegisterInnermostOnly ==
  [][ /\ \A e \in Effects :
           (Len(deps'[e]) > Len(deps[e]))
             => /\ Running
                /\ Top(frames).eff = e
                /\ ReadNow # {}
                /\ deps'[e] = Append(deps[e], CHOOSE k \in ReadNow : TRUE)
      /\ \A k \in ReadNow : Has(subs'[k], Top(frames).eff)
      /\ \A k \in Keys, e \in Effects :
           (Has(subs'[k], e) /\ ~Has(subs[k], e))
             => (Running /\ Top(frames).eff = e /\ k \in ReadNow) ]_vars

\* The outer effect (a copier) has resumed after the run it triggered: the
\* nested effect alone is subscribed to the key it read, and the key the
\* outer effect read afterwards is the outer effect's alone.
C7_Witness ==
  /\ Len(frames) >= 2
  /\ Top(frames).kind = "run"
  /\ body[Top(frames).eff] = "copier"
  /\ Top(frames).pc = 4
  /\ \E e2 \in Effects :
       /\ e2 # Top(frames).eff
       /\ subs["b"] = << e2 >>
       /\ subs["c"] = << Top(frames).eff >>

\* ------------------------------------------------------------------------
\* C8.  When an effect body raises, the effect stack after the run is the
\* effect stack before the run; with no code running the stack is empty.
\* ------------------------------------------------------------------------
C8_StackRestoredOnRaise ==
  [][ /\ RunRaised => effectStack' = Top(frames).entry
      /\ frames' = << >> => effectStack' = << >> ]_vars

\* A nested run has just been left by an exception: the failed effect is
\* off the stack and the enclosing effect is on top again.
C8_Witness ==
  /\ exc
  /\ Len(frames) >= 2
  /\ Top(frames).kind = "pass"
  /\ Top(frames).log # << >>
  /\ ~Has(effectStack, Top(Top(frames).log))
  /\ effectStack # << >>
  /\ Top(effectStack) = frames[Len(frames) - 1].eff

\* ------------------------------------------------------------------------
\* C9.  A value-changing write notifies at once: the step that stores the
\* value starts a notification loop of its own over the key's subscribers
\* (no batching, no merging with a loop already under way), and the write
\* hands control back only after every one of them has been called.
\* ------------------------------------------------------------------------
C9_WriteRunsSubscribersSynchronously ==
  [][ /\ (lastWrite'.k # "" /\ lastWrite'.old # lastWrite'.new)
           => /\ Len(frames') = Len(frames) + 1
              /\ Top(frames').kind = "pass"
              /\ Top(frames').key = lastWrite'.k
              /\ Top(frames').snap = subs[lastWrite'.k]
              /\ Top(frames').log = << >>
              /\ val'[lastWrite'.k] = lastWrite'.new
      /\ PassLeft => Len(Top(frames).log) = Len(Top(frames).snap) ]_vars

\* ------------------------------------------------------------------------
\* The controller: vocabulary.
\* ------------------------------------------------------------------------
\* The effects the controller has created for the declarations of node n.
EffectsOf(n) == { e \in 1..Len(body) : body[e] = n }

\* Node n is a nested controller's element or lies inside a nested
\* controller.
Nested(n) == closest(parent, n) \notin {"", this_el}

\* This step is a write of the page to the controller's state.
StoreWrite == \E k \in {"a", "b"}, v \in Values : WriteState(k, v)

\* This step is an event of the tree or of the bus.
TreeEvent ==
  \/ \E n \in Nodes, v \in Values : InputEvent(n, v)
  \/ \E n \in Nodes : Click(n)
  \/ \E v \in Values : Emit(v)

\* C3: once the controller is unmounted, a write to its state changes
\* nothing any node shows, and an event of the tree or the bus changes
\* nothing in its state, whatever insertions, removals and deliveries came
\* before the unmount.
C3_UnmountedControllerIsInert ==
  [][ lifecycle = "unmounted" =>
        /\ StoreWrite => dom' = dom
        /\ TreeEvent => val' = val ]_vars

\* C10: no step of the controller creates an effect or attaches a listener
\* for a node that is a nested controller's element or lies inside one,
\* neither the scan at mount nor a scan on delivery of insertions.
C10_NestedDeclarationsNeverClaimed ==
  [][ \A n \in Nodes :
        Nested(n) =>
          /\ { e \in 1..Len(body') : body'[e] = n } = EffectsOf(n)
          /\ inputListeners'[n] <= inputListeners[n]
          /\ onListeners'[n] <= onListeners[n]
          /\ Len(cleanupMap'[n]) <= Len(cleanupMap[n]) ]_vars

\* A delivery has just scanned an inserted plain node that holds a nested
\* controller holding the control: the scan left the nested controller's
\* element and the control alone and the control has never been claimed,
\* while the controller's own node y is bound and listened to.
C10_Witness ==
  /\ lifecycle = "mounted"
  /\ records = << >>
  /\ parent["x"] = "inner" /\ parent["inner"] = "box"
  /\ parent["box"] = this_el
  /\ {"inner", "x"} \subseteq skipped
  /\ EffectsOf("x") = {} /\ EffectsOf("inner") = {}
  /\ cleanupMap["x"] = << >> /\ inputListeners["x"] = 0
  /\ onListeners["x"] = 0
  /\ Len(cleanupMap["y"]) = 2

\* ------------------------------------------------------------------------
\* C11.  Vocabulary: the controller is mounted and has processed every
\* structural change; node n is in the controller's own scope; n's binding
\* is live.
\* ------------------------------------------------------------------------
Settled == lifecycle = "mounted" /\ records = << >>

OwnScope(n) == n # this_el /\ closest(parent, n) = this_el

\* The effects of n's binding that are subscribed to the bound key.
LiveEffects(n) ==
  { e \in EffectsOf(n) : Has(subs[gxBind(n).key], e) }

Shows(n) == dom[n] = String(val[gxBind(n).key])

Live(n) ==
  /\ LiveEffects(n) # {}
  /\ Shows(n)
  /\ isInput(n) => inputListeners[n] >= 1

BoundNodes == { n \in Nodes : gxBind(n) # NoBind /\ ~gx(n) }

\* C11: once the mounted controller has processed the structural changes,
\* every bound node in its scope is live, however and whenever it came
\* there: it has a subscribed effect, it shows the current value of its
\* key after every later write, and an input event on a two-way bound
\* control in scope leaves the typed value in the state.
C11_InsertedNodeBecomesLive ==
  [][ /\ \A n \in BoundNodes : (Settled /\ OwnScope(n))' => Live(n)'
      /\ (Settled /\ OwnScope("x") /\ \E v \in Values : InputEvent("x", v))
           => val'["a"] = dom'["x"] ]_vars

\* The control was inserted after mount (its effect is younger than that
\* of y, which the scan at mount meets last), the insertion has been
\* processed, and the control shows a value written since.
C11_Witness ==
  /\ Settled
  /\ parent["x"] = this_el
  /\ body = << "computed", "y", "x" >>
  /\ Live("x")
  /\ val["a"] = Num(1)
  /\ dom["x"] = Str(1)

\* ------------------------------------------------------------------------
\* C12.  With the two-way bound control in the mounted controller's scope
\* and every structural change processed: a write of X to the bound key
\* leaves the control showing X (as the string that spells it) when the
\* write returns, and an input event carrying Y leaves the key equal to
\* the string Y when the handler returns, in any interleaving.
\* ------------------------------------------------------------------------
C12_TwoWayRoundTrip ==
  [][ (Settled /\ OwnScope("x")) =>
        \A v \in Values :
          /\ WriteState("a", v) => dom'["x"] = String(Num(v))
          /\ InputEvent("x", v) => val'["a"] = Str(v) ]_vars

\* The control, inside a plain container of the controller, shows the
\* number the page wrote to the key, spelled as a string.
C12_Witness ==
  /\ Settled
  /\ parent["x"] = "box" /\ parent["box"] = this_el
  /\ inputListeners["x"] = 1
  /\ val["a"] = Num(1)
  /\ dom["x"] = Str(1)

\* ------------------------------------------------------------------------
\* C13.  The derivation of c applied to a state: a === 0 || b === 0 ? 1 : 0.
\* ------------------------------------------------------------------------
Derivation(v) ==
  IF v["a"] = Num(0) \/ v["b"] = Num(0) THEN Num(1) ELSE Num(0)

\* C13: whenever no code is running (every top-level write has returned),
\* the cached value of the computed key is its derivation applied to the
\* current state, although the derivation reads b only while a is not 0.
C13_ComputedEagerlyCurrent == val["c"] = Derivation(val)

\* The derivation has come to read b as well (a is not 0), b has been
\* written since, and the cache holds the value derived from both.
C13_Witness ==
  /\ val["a"] = Num(1) /\ val["b"] = Num(1)
  /\ SubscribedKeys(1) = {"a", "b"}
  /\ val["c"] = Num(0)

\* ------------------------------------------------------------------------
\* index.ts: the registry of Gilligan.start, for one element whose data-gx
\* names a registered class.  An instance is the record of what has been
\* done to it: how often mount() and unmount() were called on it, whether
\* its observer is connected, how many records its observer holds, and how
\* often it has scanned the tree (at mount and on each delivery).
\* ------------------------------------------------------------------------
MaxInstances == 3
MaxGlobalRecords == 3
MaxPending == 1
MaxScans == 2

\* new registry[name](el, state, config)
NewInstance ==
  [ mounts |-> 0, unmounts |-> 0, observing |-> FALSE, pending |-> 0,
    scans |-> 0 ]

\* Controller.mount(): scan the tree, start observing.
instMount(inst) ==
  [ inst EXCEPT !.mounts = @ + 1, !.scans = @ + 1, !.observing = TRUE ]

\* Controller.unmount(): disconnect the observer, run the cleanups.
instUnmount(inst) ==
  [ inst EXCEPT !.unmounts = @ + 1, !.observing = FALSE, !.pending = 0 ]

\* The registry's state as a record, for its functions.
R ==
  [ attached |-> attached, globalRecords |-> globalRecords,
    instanceMap |-> instanceMap, instances |-> instances ]

SetR(r) ==
  /\ attached' = r.attached
  /\ globalRecords' = r.globalRecords
  /\ instanceMap' = r.instanceMap
  /\ instances' = r.instances
  /\ UNCHANGED << machine, wrapVars, controller, busVars >>

\* An unmount(el) that leaves the instance in instanceMap.
registryUnmountKeeping(r) ==
  IF r.instanceMap # 0
  THEN [ r EXCEPT !.instances[r.instanceMap] = instUnmount(@) ]
  ELSE r

\* mount(el): construct and mount an instance unless the element has one.
registryMount(r) ==
  IF r.instanceMap = 0
  THEN [ r EXCEPT !.instances = Append(@, instMount(NewInstance)),
                  !.instanceMap = Len(r.instances) + 1 ]
  ELSE r

\* unmount(el): unmount the element's instance, if any, and forget it.
registryUnmount(r) ==
  IF r.instanceMap # 0
  THEN [ r EXCEPT !.instances[r.instanceMap] = instUnmount(@),
                  !.instanceMap = 0 ]
  ELSE r

\* The callback of the registry's observer, for one record.
onGlobalMutation(r, removed) ==
  IF removed THEN registryUnmount(r) ELSE registryMount(r)

RECURSIVE onGlobalMutations(_, _)
onGlobalMutations(r, mutations) ==
  IF mutations = << >> THEN r
  ELSE onGlobalMutations(onGlobalMutation(r, Head(mutations)),
                         Tail(mutations))

\* Gilligan.start() on a page that has the element or not: observe the
\* body, then mount what is there.
Started(has) ==
  IF has THEN registryMount([ attached |-> TRUE, globalRecords |-> << >>,
                              instanceMap |-> 0, instances |-> << >> ])
  ELSE [ attached |-> FALSE, globalRecords |-> << >>, instanceMap |-> 0,
         instances |-> << >> ]

RegInit ==
  /\ StartsAs(Blank(0))
  /\ NoProxies
  /\ NoController
  /\ NoBus
  /\ \E has \in BOOLEAN :
       /\ attached = Started(has).attached
       /\ globalRecords = Started(has).globalRecords
       /\ instanceMap = Started(has).instanceMap
       /\ instances = Started(has).instances

\* The page puts the element into the document.
AddRoot ==
  /\ ~attached
  /\ Len(globalRecords) < MaxGlobalRecords
  /\ SetR([ R EXCEPT !.attached = TRUE,
                     !.globalRecords = Append(@, FALSE) ])

\* The page takes the element out of the document.
RemoveRoot ==
  /\ attached
  /\ Len(globalRecords) < MaxGlobalRecords
  /\ SetR([ R EXCEPT !.attached = FALSE,
                     !.globalRecords = Append(@, TRUE) ])

\* The registry's observer delivers its records.
NotifyRegistry ==
  /\ globalRecords # << >>
  /\ LET r == onGlobalMutations([ R EXCEPT !.globalRecords = << >> ],
                                globalRecords)
     IN /\ Len(r.instances) <= MaxInstances
        /\ SetR(r)

\* The page changes the children of the element: every connected observer
\* of an instance gets a record.
ChangeChildren ==
  /\ \E i \in 1..Len(instances) :
       instances[i].observing /\ instances[i].pending < MaxPending
  /\ SetR([ R EXCEPT !.instances =
              [ i \in 1..Len(instances) |->
                  IF instances[i].observing /\ instances[i].pending < MaxPending
                  THEN [ instances[i] EXCEPT !.pending = @ + 1 ]
                  ELSE instances[i] ] ])

\* The observer of instance i delivers its records: the instance scans.
NotifyInstance(i) ==
  /\ i \in 1..Len(instances)
  /\ instances[i].observing
  /\ instances[i].pending > 0
  /\ instances[i].scans < MaxScans
  /\ SetR([ R EXCEPT !.instances[i].pending = 0,
                     !.instances[i].scans = @ + 1 ])

RegNext ==
  \/ AddRoot
  \/ RemoveRoot
  \/ NotifyRegistry
  \/ ChangeChildren
  \/ \E i \in 1..MaxInstances : NotifyInstance(i)

RegSpec == RegInit /\ [][RegNext]_vars

\* C14: under the registry an instance is mounted at most once and
\* unmounted at most once; once unmounted it is never mounted again, never
\* scans again and never observes again; and the instance the registry
\* holds for the element is never an unmounted one.
C14_UnmountedIsTerminal ==
  [][ /\ \A i \in 1..Len(instances') :
           /\ instances'[i].mounts <= 1
           /\ instances'[i].unmounts <= 1
      /\ \A i \in 1..Len(instances) :
           instances[i].unmounts >= 1 =>
             /\ instances'[i].mounts = instances[i].mounts
             /\ instances'[i].scans = instances[i].scans
             /\ ~instances'[i].observing
      /\ instanceMap' # 0 => instances'[instanceMap'].unmounts = 0 ]_vars

\* The element was removed and added again: its first instance is
\* unmounted for good and a second instance is mounted in its place.
C14_Witness ==
  /\ attached
  /\ globalRecords = << >>
  /\ Len(instances) = 2
  /\ instances[1].unmounts = 1 /\ ~instances[1].observing
  /\ instances[2].mounts = 1 /\ instances[2].observing
  /\ instanceMap = 2

\* ------------------------------------------------------------------------
\* reactivity.ts: reactive() and its cache, on two raw objects.  A
\* reference is a raw object, a proxy, or null; proxy i is the proxy made
\* by the i-th wrapping, and its target is the key of the cache's entry i.
\* ------------------------------------------------------------------------
MaxProxies == 5

Raw(i) == << "raw", i >>

Proxy(i) == << "proxy", i >>

Null == << "null", 0 >>

RawObjects == { Raw(1), Raw(2) }

\* The objects the page can hold: the raw ones and the proxies made so far.
Known(pm) == RawObjects \cup { Proxy(i) : i \in 1..Len(pm) }

\* proxyMap.has(obj)
cached(pm, obj) == \E i \in 1..Len(pm) : pm[i] = obj

\* proxyMap.get(obj)
cachedProxy(pm, obj) == Proxy(CHOOSE i \in 1..Len(pm) : pm[i] = obj)

\* reactive(obj): the cached proxy, or a new one that is then cached.
reactive(pm, obj) ==
  IF cached(pm, obj) THEN [ map |-> pm, proxy |-> cachedProxy(pm, obj) ]
  ELSE [ map |-> Append(pm, obj), proxy |-> Proxy(Len(pm) + 1) ]

\* The raw object a reference leads to, through the targets of proxies.
RECURSIVE Underlying(_, _)
Underlying(pm, ref) ==
  IF ref[1] = "proxy" THEN Underlying(pm, pm[ref[2]]) ELSE ref

\* The get trap for the property child, through the proxy ref: the value
\* found in the target, wrapped when it is an object.  A target that is
\* itself a proxy answers through its own get trap.
RECURSIVE getChild(_, _, _)
getChild(pm, ch, ref) ==
  LET target == pm[ref[2]]
      found == IF target[1] = "proxy" THEN getChild(pm, ch, target)
               ELSE [ map |-> pm,
                      proxy |-> IF target = Raw(1) THEN ch ELSE Null ]
  IN IF found.proxy # Null THEN reactive(found.map, found.proxy)
     ELSE found

WrapInit == StartsAs(Blank(0)) /\ Apart

SetW(pm, ch) ==
  /\ proxyMap' = pm
  /\ child' = ch
  /\ UNCHANGED << machine, registryVars, controller, busVars >>

\* reactive(obj), by the page.
Wrap(obj) ==
  /\ obj \in Known(proxyMap)
  /\ Len(reactive(proxyMap, obj).map) <= MaxProxies
  /\ SetW(reactive(proxyMap, obj).map, child)

\* proxy.child = v, by the page, through a proxy of the raw object 1: the
\* set trap stores v as it is.
SetChild(ref, v) ==
  /\ ref \in Known(proxyMap) /\ ref[1] = "proxy"
  /\ Underlying(proxyMap, ref) = Raw(1)
  /\ v \in (Known(proxyMap) \ { r \in Known(proxyMap) :
                                  Underlying(proxyMap, r) = Raw(1) })
           \cup {Null}
  /\ SetW(proxyMap, v)

\* proxy.child, read by the page.
GetChild(ref) ==
  /\ ref \in Known(proxyMap) /\ ref[1] = "proxy"
  /\ Len(getChild(proxyMap, child, ref).map) <= MaxProxies
  /\ SetW(getChild(proxyMap, child, ref).map, child)

Refs == RawObjects \cup { Proxy(i) : i \in 1..MaxProxies }

WrapNext ==
  \/ \E obj \in Refs : Wrap(obj)
  \/ \E ref \in Refs, v \in Refs \cup {Null} : SetChild(ref, v)
  \/ \E ref \in Refs : GetChild(ref)

WrapSpec == WrapInit /\ [][WrapNext]_vars

\* C15: every underlying object has at most one wrapper: no two proxies
\* lead to the same raw object, however often and by whichever way (a call
\* of reactive, a read of a nested property) the object was wrapped.
C15_OneWrapperPerObject ==
  \A i, j \in 1..Len(proxyMap) :
    Underlying(proxyMap, Proxy(i)) = Underlying(proxyMap, Proxy(j)) => i = j

\* ------------------------------------------------------------------------
\* fetch.ts: the constructor's flattening of state, config and computed
\* keys onto the instance, with its collision guards.
\* ------------------------------------------------------------------------

\* The names a schema can use: one the class already has (the method mount
\* of the prototype) and two it has not.
Names == {"mount", "p", "q"}

Members == {"mount"}

\* What the definitions answer with: the default of a state key, the value
\* of a config key, the result of a computed function, a member.
StateDefault == Num(0)

ConfigValue == Str(0)

ComputedResult == Str(1)

MemberValue == << "member", 0 >>

\* key in this
hasKey(c, key) == c.props[key] # "none"

warn(c, phase, key) == [ c EXCEPT !.warned = @ \cup {<< phase, key >>} ]

\* Object.defineProperty(this, key, ...) with the accessors of the kind.
defineProperty(c, key, kind) == [ c EXCEPT !.props[key] = kind ]

\* One round of the forEach over the state keys.
flattenState(c, key) ==
  IF hasKey(c, key) THEN warn(c, "state", key)
  ELSE defineProperty(c, key, "state")

\* A round over the config keys that defines without looking.
flattenConfigUnguarded(c, key) == defineProperty(c, key, "config")

\* One round of the forEach over the config keys.
flattenConfig(c, key) ==
  IF hasKey(c, key) THEN warn(c, "config", key)
  ELSE defineProperty(c, key, "config")

\* One round of _initComputed's forEach: the effect runs at once and fills
\* the cache, then the getter is defined.
initComputedKey(c, key) ==
  IF hasKey(c, key) THEN warn(c, "computed", key)
  ELSE defineProperty(
         [ c EXCEPT !.effects = @ \cup {key},
                    !._computedCache[key] = ComputedResult ],
         key, "computed")

\* Object.keys(...): the keys of a schema in their order.
KeyOrder == << "mount", "p", "q" >>

\* Object.keys(this._state).forEach(...), from the i-th key on.
RECURSIVE flattenStateKeys(_, _, _)
flattenStateKeys(c, keys, i) ==
  IF i > Len(KeyOrder) THEN c
  ELSE flattenStateKeys(
         IF KeyOrder[i] \in keys THEN flattenState(c, KeyOrder[i]) ELSE c,
         keys, i + 1)

\* Object.keys(config).forEach(...), from the i-th key on.
RECURSIVE flattenConfigKeys(_, _, _)
flattenConfigKeys(c, keys, i) ==
  IF i > Len(KeyOrder) THEN c
  ELSE flattenConfigKeys(
         IF KeyOrder[i] \in keys THEN flattenConfig(c, KeyOrder[i]) ELSE c,
         keys, i + 1)

\* _initComputed(schema), from the i-th key on.
RECURSIVE initComputedKeys(_, _, _)
initComputedKeys(c, keys, i) ==
  IF i > Len(KeyOrder) THEN c
  ELSE initComputedKeys(
         IF KeyOrder[i] \in keys THEN initComputedKey(c, KeyOrder[i]) ELSE c,
         keys, i + 1)

\* The instance before the constructor's body flattens anything: the
\* members are there, the state holds the defaults of its keys.
Fresh(state, config, computed) ==
  [ made |-> TRUE,
    state |-> state, config |-> config, computed |-> computed,
    props |-> [ n \in Names |-> IF n \in Members THEN "member" ELSE "none" ],
    own |-> [ n \in Names |-> IF n \in Members THEN MemberValue
                              ELSE Undefined ],
    _state |-> [ n \in Names |-> IF n \in state THEN StateDefault
                                 ELSE Undefined ],
    _computedCache |-> [ n \in Names |-> Undefined ],
    warned |-> {}, effects |-> {}, raised |-> FALSE ]

\* new Controller(el, htmlState, htmlConfig), for a class with the schema.
construct(state, config, computed) ==
  initComputedKeys(
    flattenConfigKeys(
      flattenStateKeys(Fresh(state, config, computed), state, 1),
      config, 1),
    computed, 1)

\* this[key], read: through the accessor the property has.
getProperty(c, key) ==
  CASE c.props[key] = "state" -> [ from |-> "state", value |-> c._state[key] ]
    [] c.props[key] = "config" -> [ from |-> "config", value |-> ConfigValue ]
    [] c.props[key] = "computed" ->
         [ from |-> "computed", value |-> c._computedCache[key] ]
    [] OTHER -> [ from |-> c.props[key], value |-> c.own[key] ]

\* this[key] = v: through the setter, where the property has one; an
\* accessor without a setter raises (the code is a module, so strict).
setProperty(c, key, v) ==
  CASE c.props[key] = "state" ->
         [ c EXCEPT !._state[key] = v, !.raised = FALSE ]
    [] c.props[key] \in {"config", "computed"} -> [ c EXCEPT !.raised = TRUE ]
    [] c.props[key] = "member" -> [ c EXCEPT !.own[key] = v, !.raised = FALSE ]
    [] OTHER -> [ c EXCEPT !.own[key] = v, !.props[key] = "plain",
                           !.raised = FALSE ]

CtorInit == StartsAs(Blank(0)) /\ Apart

SetC(c) ==
  /\ controller' = c
  /\ UNCHANGED << machine, registryVars, wrapVars, busVars >>

\* The page constructs an instance of a class with some schema.
Construct(state, config, computed) ==
  /\ ~controller.made
  /\ SetC(construct(state, config, computed))

\* The page, or a method, assigns to a property of the instance.
Assign(key, v) ==
  /\ controller.made
  /\ SetC(setProperty(controller, key, v))

CtorNext ==
  \/ \E state, config, computed \in SUBSET Names :
       Construct(state, config, computed)
  \/ \E key \in Names, v \in Values : Assign(key, Num(v))

CtorSpec == CtorInit /\ [][CtorNext]_vars

\* The definition that came first for a name: a member, then the state,
\* then the config, then the computed schema.
FirstDefinition(c, n) ==
  CASE n \in Members -> "member"
    [] n \in c.state -> "state"
    [] n \in c.config -> "config"
    [] n \in c.computed -> "computed"
    [] OTHER -> "none"

\* The names where a config key, or a computed key, met an earlier
\* definition.
ConfigCollisions(c) == c.config \cap (Members \cup c.state)

ComputedCollisions(c) == c.computed \cap (Members \cup c.state \cup c.config)

\* C16: property collisions are settled first-definition-wins.  Once an
\* instance is constructed from any schema, construction has not raised;
\* every config or computed key that met an earlier definition has been
\* warned about and has left the earlier definition in force, so that a
\* read of the name is answered by the earlier definition and a write to a
\* colliding state key goes to the state and is read back; and a skipped
\* computed key has no effect.
C16_FirstDefinitionWins ==
  [][ controller'.made =>
        /\ \A n \in ConfigCollisions(controller') :
             /\ << "config", n >> \in controller'.warned
             /\ getProperty(controller', n).from
                  = FirstDefinition(controller', n)
        /\ \A n \in ComputedCollisions(controller') :
             /\ << "computed", n >> \in controller'.warned
             /\ n \notin controller'.effects
             /\ controller'._computedCache[n] = Undefined
             /\ getProperty(controller', n).from
                  = FirstDefinition(controller', n)
        /\ ~controller.made => ~controller'.raised
        /\ \A n \in ConfigCollisions(controller')
                      \cup ComputedCollisions(controller'), v \in Values :
             (Assign(n, Num(v)) /\ FirstDefinition(controller, n) = "state")
               => /\ ~controller'.raised
                  /\ getProperty(controller', n)
                       = [ from |-> "state", value |-> Num(v) ] ]_vars

\* A schema where p is a state key, a config key and a computed key, q a
\* config key and a computed key, and mount a computed key, has been
\* constructed, and p has been written through the instance.
C16_Witness ==
  /\ controller.made
  /\ controller.state = {"p"}
  /\ controller.config = {"p", "q"}
  /\ controller.computed = {"p", "q", "mount"}
  /\ controller.warned = { << "config", "p" >>, << "computed", "p" >>,
                           << "computed", "q" >>, << "computed", "mount" >> }
  /\ controller.effects = {}
  /\ controller._state["p"] = Num(1)

\* ------------------------------------------------------------------------
\* index.ts: class EventBus, for one event.  The Set of the event keeps
\* its entries in the order they were added; a deleted entry leaves a hole
\* (0) behind for as long as a forEach may be walking the Set.
\* ------------------------------------------------------------------------
MaxCalls == 3

MaxEntries == 4

Callbacks == 1..3

\* set.has(cb)
setHas(entries, cb) == \E i \in 1..Len(entries) : entries[i] = cb

\* set.add(cb)
setAdd(entries, cb) ==
  IF setHas(entries, cb) THEN entries ELSE Append(entries, cb)

\* set.delete(cb)
setDelete(entries, cb) ==
  [ i \in 1..Len(entries) |-> IF entries[i] = cb THEN 0 ELSE entries[i] ]

\* set.size
setSize(entries) == Cardinality({ i \in 1..Len(entries) : entries[i] # 0 })

\* The entries without the holes.
Compact(entries) == SelectSeq(entries, LAMBDA cb : cb # 0)

\* The bus as a record, and a bus committed.  A Set that no forEach is
\* walking keeps no holes.
B == [ listeners |-> listeners, emission |-> emission ]

Walked(b) == b.emission.active /\ ~b.emission.detached

SetB(b) ==
  /\ listeners' = IF Walked(b) THEN b.listeners
                  ELSE [ b.listeners EXCEPT !.entries = Compact(@) ]
  /\ emission' = b.emission
  /\ UNCHANGED << machine, registryVars, wrapVars, controller >>

\* on(event, callback)
on(b, cb) ==
  [ b EXCEPT !.listeners =
      [ has |-> TRUE,
        entries |-> setAdd(IF @.has THEN @.entries ELSE << >>, cb) ] ]

\* off(event, callback): the Set that becomes empty leaves the map, and an
\* emission walking it is left with a Set nobody can add to any more.
off(b, cb) ==
  IF ~b.listeners.has THEN b
  ELSE LET left == setDelete(b.listeners.entries, cb)
           noted == [ b EXCEPT !.emission.dropped =
                        IF b.emission.active /\ setHas(b.listeners.entries, cb)
                        THEN @ \cup {cb} ELSE @ ]
       IN IF setSize(left) = 0
          THEN [ noted EXCEPT !.listeners = [ has |-> FALSE, entries |-> << >> ],
                              !.emission.detached = b.emission.active ]
          ELSE [ noted EXCEPT !.listeners.entries = left ]

\* What a callback does with the bus before it returns or throws: up to
\* two calls of on or off.
BusOps == { << kind, cb >> : kind \in {"on", "off"}, cb \in Callbacks }

Bodies == { << >> } \cup { << o >> : o \in BusOps }
            \cup { << o1, o2 >> : o1 \in BusOps, o2 \in BusOps }

RECURSIVE runBody(_, _)
runBody(b, does) ==
  IF does = << >> THEN b
  ELSE runBody(IF Head(does)[1] = "on" THEN on(b, Head(does)[2])
               ELSE off(b, Head(does)[2]),
               Tail(does))

\* The entry forEach visits next: the first one after its position that is
\* not a hole; 0 when there is none, or when the Set left the map.
nextEntry(b) ==
  LET after == { i \in 1..Len(b.listeners.entries) :
                   i > b.emission.pos /\ b.listeners.entries[i] # 0 }
  IN IF b.emission.detached \/ after = {} THEN 0
     ELSE CHOOSE i \in after : \A j \in after : i <= j

\* A round of forEach whose callback's error goes uncaught.
invokeUncaught(b, does, throws) ==
  LET i == nextEntry(b)
      called == [ b EXCEPT !.emission.pos = i,
                           !.emission.invoked =
                             Append(@, b.listeners.entries[i]) ]
      ran == runBody(called, does)
  IN IF throws
     THEN [ ran EXCEPT !.emission.threw = @ \cup {b.listeners.entries[i]},
                       !.emission.raised = TRUE,
                       !.emission.active = FALSE ]
     ELSE ran

\* A round of forEach: the callback is called inside try, and what it
\* throws is caught and reported with console.error.
invoke(b, does, throws) ==
  LET i == nextEntry(b)
      called == [ b EXCEPT !.emission.pos = i,
                           !.emission.invoked =
                             Append(@, b.listeners.entries[i]) ]
      ran == runBody(called, does)
  IN IF throws
     THEN [ ran EXCEPT !.emission.threw = @ \cup {b.listeners.entries[i]},
                       !.emission.reported = @ + 1 ]
     ELSE ran

\* emit(event, payload), up to the first round of the forEach.
emitEvent(b) ==
  [ b EXCEPT !.emission =
      [ NoEmission EXCEPT !.active = b.listeners.has,
                          !.start = { cb \in Callbacks :
                                        setHas(b.listeners.entries, cb) } ] ]

BusInit == StartsAs(Blank(0)) /\ Apart

\* The page subscribes a callback, or unsubscribes it, between emissions.
BusOn(cb) ==
  /\ ~emission.active
  /\ Len(setAdd(listeners.entries, cb)) <= MaxEntries
  /\ SetB(on(B, cb))

BusOff(cb) ==
  /\ ~emission.active
  /\ SetB(off(B, cb))

\* The page emits the event.
BusEmit ==
  /\ ~emission.active
  /\ SetB(emitEvent(B))

\* The forEach of the emission calls the next callback, which does what
\* it does, and returns or throws.
BusCall(does, throws) ==
  /\ emission.active
  /\ nextEntry(B) # 0
  /\ Len(emission.invoked) < MaxCalls
  /\ Len(invoke(B, does, throws).listeners.entries) <= MaxEntries
  /\ SetB(invoke(B, does, throws))

\* The forEach finds no further entry, and emit returns.
BusDone ==
  /\ emission.active
  /\ nextEntry(B) = 0
  /\ SetB([ B EXCEPT !.emission.active = FALSE ])

BusNext ==
  \/ \E cb \in Callbacks : BusOn(cb)
  \/ \E cb \in Callbacks : BusOff(cb)
  \/ BusEmit
  \/ \E does \in Bodies, throws \in BOOLEAN : BusCall(does, throws)
  \/ BusDone

BusSpec == BusInit /\ [][BusNext]_vars

\* C17: an emission is isolated from the subscription changes its callbacks
\* make: whatever the callbacks unsubscribe (and subscribe) meanwhile, no
\* callback is invoked more than once in one emission.
C17_NoCallbackTwice ==
  \A i, j \in 1..Len(emission.invoked) :
    emission.invoked[i] = emission.invoked[j] => i = j

\* C18: a subscriber that throws is isolated.  The round of an emission in
\* which a callback throws reports the error and leaves the emission going,
\* emit raising nothing; and when the emission ends, every callback that
\* was subscribed when it began and has not been unsubscribed meanwhile has
\* been invoked, whichever callbacks threw.
C18_ThrowingSubscriberIsolated ==
  [][ /\ \A does \in Bodies :
           BusCall(does, TRUE) =>
             /\ emission'.reported = emission.reported + 1
             /\ emission'.active
             /\ ~emission'.raised
      /\ BusDone =>
           /\ ~emission'.raised
           /\ \A cb \in emission.start \ emission.dropped :
                setHas(emission.invoked, cb) ]_vars

\* An emission to three subscribers has ended: the first one threw, the
\* error was reported, and the other two were invoked after it.
C18_Witness ==
  /\ ~emission.active
  /\ emission.start = {1, 2, 3}
  /\ emission.invoked = << 1, 2, 3 >>
  /\ emission.threw = {1}
  /\ emission.reported = 1
  /\ ~emission.raised

\* C19: every binding declaration in a mounted controller's scope is
\* realized exactly once.  Whenever the controller is mounted and every
\* notification has been delivered, each bound node of its scope has
\* exactly one live push effect and, when it is a two-way input, exactly
\* one input listener.
C19_OneEffectOneListener ==
  Settled =>
    \A n \in BoundNodes :
      OwnScope(n) =>
        /\ Cardinality(LiveEffects(n)) = 1
        /\ isInput(n) => inputListeners[n] = 1

\* n is outside the controller's subtree.
Gone(n) == ~contains(parent, this_el, n)

\* Nothing of the controller is left on n: no cleanup is kept for it, none
\* of its effects is subscribed, no listener of the controller is on it.
Forgotten(n) ==
  /\ cleanupMap[n] = << >>
  /\ inputListeners[n] = 0
  /\ onListeners[n] = 0
  /\ gxBind(n) # NoBind => LiveEffects(n) = {}

\* C20: a notified removal tears the removed nodes down, once and for all.
\* After the observer's callback has run, nothing of the controller is left
\* on any node that is then outside the controller's subtree, whether it
\* was removed itself or inside a removed node.  From then on, while it
\* stays outside, a write to the state does not change the node, an event
\* on it does not change the state, and unmounting finds no cleanup of it
\* to invoke again.
C20_RemovalCleansSubtree ==
  [][ /\ Deliver => \A n \in Movable : Gone(n)' => Forgotten(n)'
      /\ \A n \in Movable :
           (Settled /\ Gone(n)) =>
             /\ Forgotten(n)
             /\ (\E k \in Keys, v \in Values : WriteState(k, v))
                  => dom'[n] = dom[n]
             /\ ((\E v \in Values : InputEvent(n, v)) \/ Click(n))
                  => val' = val
             /\ Unmount => Forgotten(n)' /\ disposed' \cap EffectsOf(n)
                                              = disposed \cap EffectsOf(n) ]_vars

\* The node box was removed with the bound input x inside it, the removal
\* has been notified, and a write to the key a since then has left x
\* showing the old value.
C20_Witness ==
  /\ Settled
  /\ parent["box"] = "" /\ parent["x"] = "box"
  /\ EffectsOf("x") # {}
  /\ Forgotten("x")
  /\ val["a"] = Num(1) /\ dom["x"] = Str(0)

\* C21: the ref map follows the tree.  Whenever the controller is mounted
\* and every notification has been processed, refs maps a name to a node
\* exactly when the node lies in the controller's own scope and declares
\* the name; the ref of a removed node is gone.
C21_RefsFollowTheTree ==
  Settled =>
    \A r \in RefNames, n \in Nodes :
      refs[r] = n <=> (gxRef(n) = r /\ inScope(M, n))

\* C22: an effect that raises is isolated from the other subscribers of
\* the write.  When an effect called by a write's notification loop has
\* raised, control leaves the loop only after every other effect that was
\* subscribed to the key at the time of the write has been called too.
C22_RaisingEffectIsolated ==
  [][ (PassLeft /\ exc) =>
        \A e \in Range(Top(frames).snap) : Has(Top(frames).log, e) ]_vars

\* ------------------------------------------------------------------------
\* The write-back of a two-way binding, for a control bound to any name of
\* the instance: the input handler of the class (fetch.ts) and the handler
\* of the functional controller (controller.ts).
\* ------------------------------------------------------------------------

\* fetch.ts, inputHandler: (this as any)[objKey] = newVal, nothing more.
inputHandlerFor(c, key, v) == setProperty(c, key, Str(v))

\* controller.ts, handler: try { instance[key] = newVal } catch (err) {
\* console.warn(...) }
handlerFor(c, key, v) ==
  LET set == setProperty(c, key, Str(v))
  IN IF set.raised THEN warn([ set EXCEPT !.raised = FALSE ], "setter", key)
     ELSE set

\* The user types v into a control of the class controller bound to key.
TypeInto(key, v) ==
  /\ controller.made
  /\ controller.props[key] # "none"
  /\ SetC(inputHandlerFor(controller, key, v))

\* The same, for a control of the functional controller.
TypeIntoFunctional(key, v) ==
  /\ controller.made
  /\ controller.props[key] # "none"
  /\ SetC(handlerFor(controller, key, v))

WriteBackNext ==
  \/ \E state, config, computed \in SUBSET Names :
       Construct(state, config, computed)
  \/ \E key \in Names, v \in Values : TypeInto(key, v)
  \/ \E key \in Names, v \in Values : TypeIntoFunctional(key, v)

WriteBackSpec == CtorInit /\ [][WriteBackNext]_vars

\* The names that are accessors without a setter: the config keys and the
\* computed keys.
NoSetter(c) == { n \in Names : c.props[n] \in {"config", "computed"} }

\* C23: a write-back to a key without a usable setter is caught and
\* logged.  Whichever handler writes an input's value back to a config key
\* or a computed key, the handler does not raise, the failure is logged,
\* and the state is as it was.
C23_SetterFailureCaught ==
  [][ controller.made =>
        \A key \in NoSetter(controller), v \in Values :
          (TypeInto(key, v) \/ TypeIntoFunctional(key, v))
            => /\ ~controller'.raised
               /\ << "setter", key >> \in controller'.warned
               /\ controller'._state = controller._state ]_vars

\* ------------------------------------------------------------------------
\* What a cascade does, counted along the steps the code takes from a
\* machine state m until no code is running.
\* ------------------------------------------------------------------------

\* The next step calls an effect from a notification loop.
CallsEffect(m) ==
  /\ ~m.exc
  /\ Top(m.frames).kind = "pass"
  /\ Top(m.frames).idx <= Len(Top(m.frames).snap)

\* The instruction the next step executes, if it executes one.
NextIns(m) ==
  LET f == Top(m.frames) IN
  IF ~m.exc /\ f.kind = "run" /\ f.pc <= Len(Prog(m.body[f.eff]))
  THEN Prog(m.body[f.eff])[f.pc]
  ELSE I("none", "", 0)

\* The next step assigns to the key k of the state.
WritesKey(m, k) ==
  NextIns(m).op \in {"write", "copy", "tryCopy", "derive"} /\ NextIns(m).k = k

\* The next step assigns to the value of a control.
WritesValue(m) ==
  /\ NextIns(m).op = "dom"
  /\ gxBind(NextIns(m).k).type = "value"
  /\ m.dom[NextIns(m).k] # String(Top(m.frames).acc)

RECURSIVE EffectCalls(_)
EffectCalls(m) ==
  IF m.frames = << >> THEN 0
  ELSE (IF CallsEffect(m) THEN 1 ELSE 0) + EffectCalls(StepFn(m))

RECURSIVE KeyWrites(_, _)
KeyWrites(m, k) ==
  IF m.frames = << >> THEN 0
  ELSE (IF WritesKey(m, k) THEN 1 ELSE 0) + KeyWrites(StepFn(m), k)

RECURSIVE ValueWrites(_)
ValueWrites(m) ==
  IF m.frames = << >> THEN 0
  ELSE (IF WritesValue(m) THEN 1 ELSE 0) + ValueWrites(StepFn(m))

\* The machine as the first input handler finds it when the user has typed
\* v into x, and as the handler's assignment leaves it.
Typed(v) == [ M EXCEPT !.dom["x"] = Str(v) ]

Assigned(v) == reactiveSet(Typed(v), "a", Str(v))

\* C24: a two-way binding makes no state->tree->state loop.  For an input
\* event on the bound control x of a mounted controller: the event assigns
\* to the bound key exactly once (one handler is called, and nothing it
\* sets off assigns to the key again); the push effect of x does not
\* assign to the control's value; and the cascade calls no more effects
\* than there are.  For a programmatic write to the key likewise: nothing
\* it sets off assigns to the key, and it calls no more effects than there
\* are.
C24_NoFeedbackLoop ==
  [][ (Settled /\ OwnScope("x")) =>
        \A v \in Values :
          /\ InputEvent("x", v) =>
               /\ inputListeners["x"] = 1
               /\ KeyWrites(Assigned(v), "a") = 0
               /\ ValueWrites(Assigned(v)) = 0
               /\ EffectCalls(Assigned(v)) <= Len(body)
               /\ dom'["x"] = Str(v)
          /\ WriteState("a", v) =>
               /\ KeyWrites(reactiveSet(M, "a", Num(v)), "a") = 0
               /\ EffectCalls(reactiveSet(M, "a", Num(v))) <= Len(body) ]_vars

\* ------------------------------------------------------------------------
\* fetch.ts: unmount(), statement by statement.  The lifecycle tells how
\* far the call has got: "mounted" before it, then "disconnected" (the
\* hook has run), "unobserved" (the observer is stopped), "cleaned" (the
\* cleanups have run) and "unmounted" (the refs are cleared).
\* ------------------------------------------------------------------------
Unmounting == {"disconnected", "unobserved", "cleaned"}

\* The controller's disconnect hook: the class of the model has one, and it
\* changes nothing.
disconnectHook(m) == m

\* An unmount() that clears the refs before anything else.
unmountStepRefsFirst(m) ==
  CASE m.lifecycle = "mounted" ->
         [ disconnectHook(m) EXCEPT !.refs = [ r \in RefNames |-> "" ],
                                    !.lifecycle = "disconnected" ]
    [] m.lifecycle = "disconnected" ->
         [ (IF m.observing
            THEN [ m EXCEPT !.observing = FALSE, !.records = << >>,
                            !.transient = {} ]
            ELSE m) EXCEPT !.lifecycle = "unobserved" ]
    [] m.lifecycle = "unobserved" ->
         [ _performCleanup(m, this_el) EXCEPT !.lifecycle = "cleaned" ]
    [] OTHER -> [ m EXCEPT !.lifecycle = "unmounted" ]

\* The next statement of unmount().
unmountStep(m) ==
  CASE m.lifecycle = "mounted" ->
         [ disconnectHook(m) EXCEPT !.lifecycle = "disconnected" ]
    [] m.lifecycle = "disconnected" ->
         [ (IF m.observing
            THEN [ m EXCEPT !.observing = FALSE, !.records = << >>,
                            !.transient = {} ]
            ELSE m) EXCEPT !.lifecycle = "unobserved" ]
    [] m.lifecycle = "unobserved" ->
         [ _performCleanup(m, this_el) EXCEPT !.lifecycle = "cleaned" ]
    [] OTHER ->
         [ m EXCEPT !.refs = [ r \in RefNames |-> "" ],
                    !.lifecycle = "unmounted" ]

\* The page calls unmount(), and the call takes its steps; nothing else
\* happens meanwhile.
UnmountStep ==
  /\ lifecycle \in {"mounted"} \cup Unmounting
  /\ SetM(unmountStep(M))

Between == lifecycle \notin Unmounting

StepwiseNext ==
  \/ Mount
  \/ UnmountStep
  \/ \E n \in Nodes, p \in Containers : Between /\ Insert(n, p)
  \/ \E n \in Nodes : Between /\ Remove(n)
  \/ Between /\ Deliver
  \/ \E v \in Values : Between /\ WriteState("a", v)

StepwiseSpec == CtrlInit /\ [][StepwiseNext]_vars

\* Everything the controller has installed, apart from the refs and the
\* observer.
Installed ==
  << cleanupMap, subs, deps, inputListeners, onListeners, busListeners >>

\* No cleanup is kept for any node, and no listener of the controller is
\* left on any node of its subtree or on the bus.
AllCleaned ==
  /\ \A n \in Nodes :
       contains(parent, this_el, n) =>
         /\ cleanupMap[n] = << >>
         /\ inputListeners[n] = 0
         /\ onListeners[n] = 0
  /\ busListeners = 0

NoRefs == [ r \in RefNames |-> "" ]

RECURSIVE Evaluations(_)
Evaluations(m) ==
  IF m.frames = << >> THEN 0
  ELSE (IF NextIns(m).op = "derive" THEN 1 ELSE 0) + Evaluations(StepFn(m))

\* The values a key of the state can be given: by the page, or by an input.
StoreValues == { Num(v) : v \in Values } \cup { Str(v) : v \in Values }

\* C26: the derivation is evaluated at construction and by the writes that
\* change a key it read in its latest evaluation, and by nothing else.
\* The constructor evaluates it once.  In every state the controller can
\* be in: a write to a key evaluates it once when the write changes the
\* value and the latest evaluation read the key, and not at all otherwise;
\* and a binding's effect, which reads the computed key or a state key,
\* runs without evaluating it.
C26_EvaluatedOnlyByWrites ==
  /\ Evaluations(effect([ Blank(Num(0)) EXCEPT !.val["c"] = Undefined ],
                        "computed")) = 1
  /\ body # << >> /\ body[1] = "computed"
  /\ \A k \in {"a", "b"}, v \in StoreValues :
       Evaluations(reactiveSet(M, k, v))
         = IF val[k] # v /\ k \in since[1] THEN 1 ELSE 0
  /\ \A n \in BoundNodes : Evaluations(effect(M, n)) = 0

\* The controller is mounted with the input x and the text y bound; the
\* latest evaluation of the derivation found a = 0 and did not read b, so
\* that a write to b now evaluates nothing.
C26_Witness ==
  /\ Settled
  /\ OwnScope("x")
  /\ val["a"] = Num(0) /\ val["b"] = Num(1) /\ val["c"] = Num(1)
  /\ since[1] = {"a"}
  /\ dom["y"] = Str(1)

\* ------------------------------------------------------------------------
\* A controller whose text binding reads, through a method, both the state
\* key a and the computed key c derived from it: the computed effect and
\* the binding's effect, step by step.
\* ------------------------------------------------------------------------
MaxLabels == 2

\* The controller constructed, then one such binding initialised.
GlitchInit ==
  /\ StartsAs(RunToEnd(effect(constructor, "label")))
  /\ Apart

\* _initBindings finds another element with such a binding.
BindLabel ==
  /\ Idle
  /\ Len(body) < 1 + MaxLabels
  /\ SetM(effect(M, "label"))

\* instance.k = v, by the page; the code it starts runs step by step.
SetKey(k, v) ==
  /\ Idle
  /\ SetM(reactiveSet(M, k, v))

GlitchNext ==
  \/ BindLabel
  \/ \E k \in {"a", "b"}, v \in StoreValues : SetKey(k, v)
  \/ Step

GlitchSpec == GlitchInit /\ [][GlitchNext]_vars

\* A binding's effect, called by a notification loop, is about to read the
\* computed key.
ReadsComputedInPass ==
  /\ frames # << >>
  /\ Len(frames) >= 2
  /\ ~exc
  /\ Top(frames).kind = "run"
  /\ body[Top(frames).eff] = "label"
  /\ NextIns(M).op = "read" /\ NextIns(M).k = "c"

\* C27: no effect observes a stale computed value.  Whenever a binding's
\* effect that has read the state key a reads the computed key c while a
\* notification loop is calling it, the computed value is the derivation of
\* the state as it is.
C27_NoStaleComputed ==
  ReadsComputedInPass => val["c"] = Derivation(val)

\* C28: an emission terminates and invokes only the callbacks subscribed
\* when it started.  At every moment of an emission, each callback invoked
\* so far was subscribed when emit was called, and there have been no more
\* invocations than there were subscribers then.
C28_OnlyStartingSubscribers ==
  /\ \A i \in 1..Len(emission.invoked) :
       emission.invoked[i] \in emission.start
  /\ Len(emission.invoked) <= Cardinality(emission.start)

====
